---------------------------- MODULE Spec2Model ----------------------------
(***************************************************************************)
(* A model of the two HTTP example servers of the repository:              *)
(*   src/monoio-http/src/main.rs  (hand-written connection loop)           *)
(*   src/hyper-http/src/main.rs   (connection loop delegated to hyper)     *)
(*                                                                         *)
(* Bytes are modelled in chunks.  A request is a sequence of lines (a      *)
(* request line, header lines, the blank line), each line a string holding *)
(* its bytes; a serialized response is the sequence of slices that         *)
(* serialize_response appends to its output buffer with put_slice.         *)
(***************************************************************************)
EXTENDS Naturals, Sequences, FiniteSets, TLC

(***************************************************************************)
(* Program constants.                                                      *)
(***************************************************************************)
MAX_HEADERS == 64

BUFFER_SIZE == 8192

(***************************************************************************)
(* Bounds of the model.                                                    *)
(***************************************************************************)
\* lines one peer sends on the connection of the single-connection model
MaxSend == 4

\* lines after which a peer sends no more, in the whole-server model
MaxSendServer == 1

\* lines after which the peer sends no more, in the short-write model
MaxSendIo == 3

\* connections the listener accepts in the whole-server model
MaxConns == 2

\* last value of the wall clock (seconds after the epoch)
MaxTime == 1

\* header() calls on the builder of a Response handed to serialize_response
MaxHeaderCalls == 2

(***************************************************************************)
(* Request bytes.                                                          *)
(***************************************************************************)
CRLF == "\r\n"

RequestLine(path) == "GET " \o path \o " HTTP/1.1" \o CRLF

HostHeader == "Host: x" \o CRLF

\* three bytes that are no method token: 0x00 0x01 0x02
BadBytes == "<00><01><02>"

\* a header line so long that, after the request line of "/", it ends on the
\* last byte of a buffer of BUFFER_SIZE bytes
LongHeader == "X-Pad: <8166 bytes>" \o CRLF

HeaderLineSet == {HostHeader, LongHeader}

ConnPaths == {"/", "/health", "/x"}

RequestLines == {RequestLine(p) : p \in ConnPaths}

Lines == RequestLines \cup {HostHeader, CRLF, BadBytes}

PathOf(line) == CHOOSE p \in ConnPaths : RequestLine(p) = line

ByteLen(line) ==
    CASE line = BadBytes -> 3
      [] line = LongHeader -> BUFFER_SIZE - Len(RequestLine("/"))
      [] OTHER -> Len(line)

RECURSIVE SeqBytes(_)
SeqBytes(s) == IF s = <<>> THEN 0 ELSE ByteLen(Head(s)) + SeqBytes(Tail(s))

(***************************************************************************)
(* httparse::Request::parse, on the bytes buffer[..bytes_read].            *)
(* Leading empty lines are skipped, then the request line is parsed, then  *)
(* header lines up to the blank line.  Running out of bytes is Partial.    *)
(***************************************************************************)
Partial == [kind |-> "Partial"]

ParseError == [kind |-> "Err"]

Complete(path, n) == [kind |-> "Complete", path |-> path, consumed |-> n]

\* a parser that takes the end of the bytes for the end of the headers
RECURSIVE ParseHeaders_EofComplete(_, _, _, _)
ParseHeaders_EofComplete(buf, i, path, nheaders) ==
    IF i > Len(buf) THEN Complete(path, Len(buf))
    ELSE IF buf[i] = CRLF THEN Complete(path, i)
    ELSE IF buf[i] \in HeaderLineSet
         THEN IF nheaders >= MAX_HEADERS THEN ParseError
              ELSE ParseHeaders_EofComplete(buf, i + 1, path, nheaders + 1)
    ELSE ParseError

RECURSIVE ParseHeaders(_, _, _, _)
ParseHeaders(buf, i, path, nheaders) ==
    IF i > Len(buf) THEN Partial
    ELSE IF buf[i] = CRLF THEN Complete(path, i)
    ELSE IF buf[i] \in HeaderLineSet
         THEN IF nheaders >= MAX_HEADERS THEN ParseError
              ELSE ParseHeaders(buf, i + 1, path, nheaders + 1)
    ELSE ParseError

RECURSIVE ParseRequestLine(_, _)
ParseRequestLine(buf, i) ==
    IF i > Len(buf) THEN Partial
    ELSE IF buf[i] = CRLF THEN ParseRequestLine(buf, i + 1)
    ELSE IF buf[i] \in RequestLines THEN ParseHeaders(buf, i + 1, PathOf(buf[i]), 0)
    ELSE ParseError

parse(buf) == ParseRequestLine(buf, 1)

(***************************************************************************)
(* Responses.  headers is the list of header(name, value) calls made on    *)
(* the builder, in call order; header names are http::HeaderName, whose    *)
(* as_str() is lower case.                                                 *)
(***************************************************************************)
CONTENT_TYPE == "content-type"

CONTENT_LENGTH == "content-length"

DATE == "date"

Response(status, headers, body) ==
    [status |-> status, headers |-> headers, body |-> body]

Ok(v) == [result |-> "Ok", value |-> v]

\* a handler that matches the liveness path by prefix
handle_request_PrefixMatch(req) ==
    IF req.path = "/"
    THEN Ok(Response(200, << <<CONTENT_TYPE, "text/plain">> >>, "Hello, World!"))
    ELSE IF req.path \in {"/health", "/health/", "/healthz"}
    THEN Ok(Response(200, << <<CONTENT_TYPE, "text/plain">> >>, "Ok"))
    ELSE Ok(Response(404, << <<CONTENT_TYPE, "text/plain">> >>, "Not Found"))

\* handle_request of monoio-http
handle_request(req) ==
    IF req.path = "/"
    THEN Ok(Response(200, << <<CONTENT_TYPE, "text/plain">> >>, "Hello, World!"))
    ELSE IF req.path = "/health"
    THEN Ok(Response(200, << <<CONTENT_TYPE, "text/plain">> >>, "Ok"))
    ELSE Ok(Response(404, << <<CONTENT_TYPE, "text/plain">> >>, "Not Found"))

\* handle_request of hyper-http
hyper_handle_request(req) ==
    IF req.path = "/"
    THEN Ok(Response(200, << <<CONTENT_TYPE, "text/plain">> >>, "Hello, World!"))
    ELSE IF req.path = "/health"
    THEN Ok(Response(200, << <<CONTENT_TYPE, "text/plain">> >>, "OK"))
    ELSE Ok(Response(404, << <<CONTENT_TYPE, "text/plain">> >>, "Not Found"))

(***************************************************************************)
(* serialize_response.                                                     *)
(***************************************************************************)
Digits == <<"0", "1", "2", "3", "4", "5", "6", "7", "8", "9">>

\* u16::to_string, usize::to_string
RECURSIVE to_string(_)
to_string(n) ==
    IF n < 10 THEN Digits[n + 1] ELSE to_string(n \div 10) \o Digits[(n % 10) + 1]

\* StatusCode::canonical_reason().unwrap_or("")
canonical_reason(status) ==
    CASE status = 200 -> "OK"
      [] status = 400 -> "Bad Request"
      [] status = 404 -> "Not Found"
      [] OTHER -> ""

\* httpdate::fmt_http_date of a time in the first minute after the epoch
fmt_http_date(now) ==
    "Thu, 01 Jan 1970 00:00:" \o Digits[(now \div 10) + 1] \o Digits[(now % 10) + 1]
        \o " GMT"

WithName(headers, name) == SelectSeq(headers, LAMBDA e : e[1] = name)

WithoutName(headers, name) == SelectSeq(headers, LAMBDA e : e[1] # name)

\* HeaderMap::iter: the names in the order of their first insertion, and
\* under each name its values in the order they were appended
RECURSIVE HeadersIter(_)
HeadersIter(headers) ==
    IF headers = <<>> THEN <<>>
    ELSE WithName(headers, Head(headers)[1])
             \o HeadersIter(WithoutName(headers, Head(headers)[1]))

\* HeaderMap::contains_key
contains_key(headers, name) == \E i \in 1..Len(headers) : headers[i][1] = name

RECURSIVE HeaderLines(_)
HeaderLines(entries) ==
    IF entries = <<>> THEN <<>>
    ELSE <<Head(entries)[1], ": ", Head(entries)[2], CRLF>> \o HeaderLines(Tail(entries))

\* a serializer that adds Content-Length whatever the Response holds
serialize_response_AlwaysLength(response, now) ==
    <<"HTTP/1.1 ", to_string(response.status), " ",
      canonical_reason(response.status), CRLF>>
    \o HeaderLines(HeadersIter(response.headers))
    \o <<CONTENT_LENGTH, ": ", to_string(Len(response.body)), CRLF>>
    \o (IF ~contains_key(response.headers, DATE)
        THEN <<DATE, ": ", fmt_http_date(now), CRLF>>
        ELSE <<>>)
    \o <<CRLF>>
    \o <<response.body>>

\* a serializer that adds Date before Content-Length
serialize_response_DateFirst(response, now) ==
    <<"HTTP/1.1 ", to_string(response.status), " ",
      canonical_reason(response.status), CRLF>>
    \o HeaderLines(HeadersIter(response.headers))
    \o (IF ~contains_key(response.headers, DATE)
        THEN <<DATE, ": ", fmt_http_date(now), CRLF>>
        ELSE <<>>)
    \o (IF ~contains_key(response.headers, CONTENT_LENGTH)
        THEN <<CONTENT_LENGTH, ": ", to_string(Len(response.body)), CRLF>>
        ELSE <<>>)
    \o <<CRLF>>
    \o <<response.body>>

serialize_response(response, now) ==
    <<"HTTP/1.1 ", to_string(response.status), " ",
      canonical_reason(response.status), CRLF>>
    \o HeaderLines(HeadersIter(response.headers))
    \o (IF ~contains_key(response.headers, CONTENT_LENGTH)
        THEN <<CONTENT_LENGTH, ": ", to_string(Len(response.body)), CRLF>>
        ELSE <<>>)
    \o (IF ~contains_key(response.headers, DATE)
        THEN <<DATE, ": ", fmt_http_date(now), CRLF>>
        ELSE <<>>)
    \o <<CRLF>>
    \o <<response.body>>

(***************************************************************************)
(* State.                                                                  *)
(***************************************************************************)
VARIABLES
    program,         \* which of the two servers runs: "monoio" or "hyper"
    mainPc,          \* main: "bind", "accept" (in the accept loop), "exited"
    mainErr,         \* the error main returned: "none", "bind", "accept"
    pc,              \* per connection task: where handle_connection stands
    result,          \* per connection task: what handle_connection returned
    buffer,          \* per connection: buffer[..bytes_read] of the last read
    response_bytes,  \* per connection: the bytes handed to write_all
    inflight,        \* per connection: bytes the peer sent, not yet read
    sentAll,         \* per connection: every byte the peer has sent
    peerClosed,      \* per connection: the peer has closed its side
    io,              \* per connection: the reads and writes done on the stream
    flushed,         \* per connection: slices of response_bytes written so far
    clock,           \* SystemTime::now()
    call,            \* a call of one of the pure functions
    ret              \* what that call returned

vars == <<program, mainPc, mainErr, pc, result, buffer, response_bytes, inflight,
          sentAll, peerClosed, io, flushed, clock, call, ret>>

mainVars == <<program, mainPc, mainErr>>

fnVars == <<call, ret>>

ConnIds == 1..MaxConns

Times == 0..MaxTime

WritePcs == {"write57", "write70", "write81"}

(***************************************************************************)
(* handle_connection of monoio-http, between two awaits.                   *)
(***************************************************************************)
Step(nextPc, res, bytes) == [pc |-> nextPc, result |-> res, bytes |-> bytes]

BadRequest(body) == Response(400, << <<CONTENT_TYPE, "text/plain">> >>, body)

\* a loop that goes back to read when the parse is Partial
OnRead_PartialReadsOn(buf, now) ==
    LET parsed == parse(buf) IN
    CASE parsed.kind = "Complete" ->
            Step("write57", "none",
                 serialize_response(handle_request([path |-> parsed.path]).value, now))
      [] parsed.kind = "Partial" -> Step("read", "none", <<>>)
      [] OTHER ->
            Step("write81", "none", serialize_response(BadRequest("Bad Request"), now))

\* a loop that reads the next request without answering this one
OnRead_DropsResponse(buf, now) ==
    LET parsed == parse(buf) IN
    CASE parsed.kind = "Complete" -> Step("read", "none", <<>>)
      [] parsed.kind = "Partial" ->
            Step("write70", "none",
                 serialize_response(BadRequest("Incomplete HTTP request"), now))
      [] OTHER ->
            Step("write81", "none", serialize_response(BadRequest("Bad Request"), now))

\* the match on req.parse(&buffer[..bytes_read]), up to the next write_all
OnRead(buf, now) ==
    LET parsed == parse(buf) IN
    CASE parsed.kind = "Complete" ->
            LET res == handle_request([path |-> parsed.path]) IN
            IF res.result = "Ok"
            THEN Step("write57", "none", serialize_response(res.value, now))
            ELSE Step("done", "Err", <<>>)
      [] parsed.kind = "Partial" ->
            Step("write70", "none",
                 serialize_response(BadRequest("Incomplete HTTP request"), now))
      [] OTHER ->
            Step("write81", "none", serialize_response(BadRequest("Bad Request"), now))

\* a loop that reads again after a read of zero bytes
OnReadEof_ReadsAgain == Step("read", "none", <<>>)

\* Ok(0) => return Ok(())
OnReadEof == Step("done", "Ok", <<>>)

\* a loop that reads again after a failed read
OnReadErr_Retries == Step("read", "none", <<>>)

\* Err(e) => return Err(e.into())
OnReadErr == Step("done", "Err", <<>>)

\* a loop that does not empty its buffer before the read
clear_KeepsBytes(buf) == buf

\* buffer.clear()
clear(buf) == <<>>

\* a buffer that grows to twice its size
buffer_capacity_Grows == 2 * BUFFER_SIZE

\* BytesMut::with_capacity(BUFFER_SIZE): what one read can fill
buffer_capacity == BUFFER_SIZE

\* a single write taken for write_all
write_all_returns_AfterOneWrite(written, total) == TRUE

\* write_all returns Ok once every byte is written
write_all_returns(written, total) == written = total

\* a loop that keeps the connection after every response
OnWriteOk_AlwaysLoop(at) == Step("read", "none", <<>>)

\* what follows a write_all that returned Ok
OnWriteOk(at) ==
    IF at = "write57" THEN Step("read", "none", <<>>) ELSE Step("done", "Ok", <<>>)

\* a loop that goes on reading after a failed write
OnWriteErr_Retries(at) == Step("read", "none", <<>>)

\* what follows a write_all that returned Err
OnWriteErr(at) == Step("done", "Err", <<>>)

\* a main that ends when a task it spawned failed
TaskFinished_Propagates(res) == IF res = "Ok" THEN mainPc ELSE "exited"

\* what a spawned task's end does to main: the JoinHandle was dropped
TaskFinished(res) == mainPc

\* the ? on listener.accept().await
OnAcceptErr == [pc |-> "exited", err |-> "accept"]

\* serve_connection(..).await.unwrap() of hyper-http
hyper_handle_connection(served) == IF served = "Ok" THEN "Ok" ELSE "Panic"

ReadEvent(res, bytes) == [op |-> "read", res |-> res, bytes |-> bytes]

\* a write_all call: what it returned, its bytes, and how many slices it wrote
WriteEvent(res, bytes, n) == [op |-> "write", res |-> res, bytes |-> bytes, flushed |-> n]

Running(c) == mainPc = "accept" /\ pc[c] \notin {"unborn", "done"}

\* the effect of one step of connection c's task
Advance(c, out, event) ==
    /\ pc' = [pc EXCEPT ![c] = out.pc]
    /\ result' = [result EXCEPT ![c] = out.result]
    /\ response_bytes' = [response_bytes EXCEPT ![c] = out.bytes]
    /\ io' = [io EXCEPT ![c] = Append(@, event)]
    /\ flushed' = [flushed EXCEPT ![c] = 0]
    /\ mainPc' = IF out.pc = "done" THEN TaskFinished(out.result) ELSE mainPc

(***************************************************************************)
(* The peer of a connection.                                               *)
(***************************************************************************)
\* the peer sends some lines, having sent fewer than max before
ClientSend(c, bytes, max) ==
    /\ Running(c)
    /\ ~peerClosed[c]
    /\ Len(sentAll[c]) < max
    /\ inflight' = [inflight EXCEPT ![c] = @ \o bytes]
    /\ sentAll' = [sentAll EXCEPT ![c] = @ \o bytes]
    /\ UNCHANGED <<mainVars, pc, result, buffer, response_bytes, peerClosed, io,
                   flushed, clock, fnVars>>

ClientClose(c) ==
    /\ Running(c)
    /\ ~peerClosed[c]
    /\ peerClosed' = [peerClosed EXCEPT ![c] = TRUE]
    /\ UNCHANGED <<mainVars, pc, result, buffer, response_bytes, inflight, sentAll,
                   io, flushed, clock, fnVars>>

\* a read issued while the response to the request in the buffer is still
\* being written
ReadOk_WhileWriting(c) ==
    /\ Running(c)
    /\ pc[c] \in {"read"} \cup WritePcs
    /\ \E n \in 1..Len(inflight[c]) :
          LET bytes == SubSeq(inflight[c], 1, n)
              filled == clear(buffer[c]) \o bytes
          IN
          /\ SeqBytes(filled) <= buffer_capacity
          /\ buffer' = [buffer EXCEPT ![c] = filled]
          /\ inflight' = [inflight EXCEPT ![c] = SubSeq(@, n + 1, Len(@))]
          /\ Advance(c, OnRead(filled, clock), ReadEvent("Ok", bytes))
    /\ UNCHANGED <<program, mainErr, sentAll, peerClosed, clock, fnVars>>

(***************************************************************************)
(* The connection loop of monoio-http.                                     *)
(***************************************************************************)
\* buffer.clear(); stream.read(buffer) returns Ok(bytes_read), bytes_read > 0
ReadOk(c) ==
    /\ Running(c)
    /\ pc[c] = "read"
    /\ \E n \in 1..Len(inflight[c]) :
          LET bytes == SubSeq(inflight[c], 1, n)
              filled == clear(buffer[c]) \o bytes
          IN
          /\ SeqBytes(filled) <= buffer_capacity
          /\ buffer' = [buffer EXCEPT ![c] = filled]
          /\ inflight' = [inflight EXCEPT ![c] = SubSeq(@, n + 1, Len(@))]
          /\ Advance(c, OnRead(filled, clock), ReadEvent("Ok", bytes))
    /\ UNCHANGED <<program, mainErr, sentAll, peerClosed, clock, fnVars>>

\* stream.read(buffer) returns Ok(0)
ReadEof(c) ==
    /\ Running(c)
    /\ pc[c] = "read"
    /\ inflight[c] = <<>>
    /\ peerClosed[c]
    /\ buffer' = [buffer EXCEPT ![c] = clear(@)]
    /\ Advance(c, OnReadEof, ReadEvent("Eof", <<>>))
    /\ UNCHANGED <<program, mainErr, inflight, sentAll, peerClosed, clock, fnVars>>

\* stream.read(buffer) returns Err
ReadErr(c) ==
    /\ Running(c)
    /\ pc[c] = "read"
    /\ buffer' = [buffer EXCEPT ![c] = clear(@)]
    /\ Advance(c, OnReadErr, ReadEvent("Err", <<>>))
    /\ UNCHANGED <<program, mainErr, inflight, sentAll, peerClosed, clock, fnVars>>

\* inside write_all: a write takes fewer slices than are left
WriteSome(c) ==
    /\ Running(c)
    /\ pc[c] \in WritePcs
    /\ \E n \in 1..(Len(response_bytes[c]) - flushed[c] - 1) :
          IF write_all_returns(flushed[c] + n, Len(response_bytes[c]))
          THEN Advance(c, OnWriteOk(pc[c]),
                       WriteEvent("Ok", response_bytes[c], flushed[c] + n))
          ELSE /\ flushed' = [flushed EXCEPT ![c] = @ + n]
               /\ UNCHANGED <<mainPc, pc, result, response_bytes, io>>
    /\ UNCHANGED <<program, mainErr, buffer, inflight, sentAll, peerClosed, clock,
                   fnVars>>

\* inside write_all: a write takes every slice that is left; write_all returns Ok
WriteOk(c) ==
    /\ Running(c)
    /\ pc[c] \in WritePcs
    /\ Advance(c, OnWriteOk(pc[c]),
               WriteEvent("Ok", response_bytes[c], Len(response_bytes[c])))
    /\ UNCHANGED <<program, mainErr, buffer, inflight, sentAll, peerClosed, clock,
                   fnVars>>

\* stream.write_all(response_bytes) returns Err
WriteErr(c) ==
    /\ Running(c)
    /\ pc[c] \in WritePcs
    /\ Advance(c, OnWriteErr(pc[c]), WriteEvent("Err", response_bytes[c], flushed[c]))
    /\ UNCHANGED <<program, mainErr, buffer, inflight, sentAll, peerClosed, clock,
                   fnVars>>

\* the connection task of hyper-http
HyperServe(c) ==
    /\ Running(c)
    /\ pc[c] = "serve"
    /\ \E served \in {"Ok", "Err"} :
          /\ pc' = [pc EXCEPT ![c] = "done"]
          /\ result' = [result EXCEPT ![c] = hyper_handle_connection(served)]
          /\ mainPc' = TaskFinished(hyper_handle_connection(served))
    /\ UNCHANGED <<program, mainErr, buffer, response_bytes, inflight, sentAll,
                   peerClosed, io, flushed, clock, fnVars>>

\* the wall clock advances
Tick ==
    /\ mainPc = "accept"
    /\ clock < MaxTime
    /\ clock' = clock + 1
    /\ UNCHANGED <<mainVars, pc, result, buffer, response_bytes, inflight, sentAll,
                   peerClosed, io, flushed, fnVars>>

(***************************************************************************)
(* main of both servers.                                                   *)
(***************************************************************************)
connVars ==
    <<pc, result, buffer, response_bytes, inflight, sentAll, peerClosed, io, flushed>>

BindOk ==
    /\ mainPc = "bind"
    /\ mainPc' = "accept"
    /\ UNCHANGED <<program, mainErr, connVars, clock, fnVars>>

BindErr ==
    /\ mainPc = "bind"
    /\ mainPc' = "exited"
    /\ mainErr' = "bind"
    /\ UNCHANGED <<program, connVars, clock, fnVars>>

Unborn == {c \in ConnIds : pc[c] = "unborn"}

\* an accept loop that awaits the spawned task before accepting again
AcceptOk_WaitsForTask ==
    /\ mainPc = "accept"
    /\ Unborn # {}
    /\ \A d \in ConnIds : pc[d] \in {"unborn", "done"}
    /\ LET c == CHOOSE d \in Unborn : \A e \in Unborn : d <= e IN
       pc' = [pc EXCEPT ![c] = IF program = "monoio" THEN "read" ELSE "serve"]
    /\ UNCHANGED <<mainVars, result, buffer, response_bytes, inflight, sentAll,
                   peerClosed, io, flushed, clock, fnVars>>

\* listener.accept() returns a stream; the task is spawned
AcceptOk ==
    /\ mainPc = "accept"
    /\ Unborn # {}
    /\ LET c == CHOOSE d \in Unborn : \A e \in Unborn : d <= e IN
       pc' = [pc EXCEPT ![c] = IF program = "monoio" THEN "read" ELSE "serve"]
    /\ UNCHANGED <<mainVars, result, buffer, response_bytes, inflight, sentAll,
                   peerClosed, io, flushed, clock, fnVars>>

\* listener.accept() returns Err
AcceptErr ==
    /\ mainPc = "accept"
    /\ mainPc' = OnAcceptErr.pc
    /\ mainErr' = OnAcceptErr.err
    /\ UNCHANGED <<program, connVars, clock, fnVars>>

(***************************************************************************)
(* Calls of the pure functions.                                            *)
(***************************************************************************)
SeqsUpTo(S, n) == UNION {[1..k -> S] : k \in 0..n}

FnPaths == {"/", "/health", "/x", "/health/", "/healthz", "/Health", ""}

HeaderPool ==
    { <<CONTENT_TYPE, "text/plain">>, <<CONTENT_LENGTH, "2">>, <<CONTENT_LENGTH, "99">>,
      <<DATE, "Mon, 02 Nov 2026 00:00:00 GMT">>, <<"x-a", "1">> }

Responses ==
    { Response(s, h, b) : s \in {200, 400, 404, 299},
                          h \in SeqsUpTo(HeaderPool, MaxHeaderCalls),
                          b \in {"", "Ok", "Hello, World!"} }

Calls ==
    { [fn |-> "handle_request", program |-> g, path |-> p] :
          g \in {"monoio", "hyper"}, p \in FnPaths }
    \cup { [fn |-> "serialize_response", response |-> r, now |-> t] :
          r \in Responses, t \in Times }

Returned(v) == [done |-> TRUE, value |-> v]

NotReturned == [done |-> FALSE]

CallHandleRequest ==
    /\ ~ret.done
    /\ call.fn = "handle_request"
    /\ ret' = Returned(IF call.program = "monoio"
                       THEN handle_request([path |-> call.path])
                       ELSE hyper_handle_request([path |-> call.path]))
    /\ UNCHANGED <<mainVars, connVars, clock, call>>

CallSerializeResponse ==
    /\ ~ret.done
    /\ call.fn = "serialize_response"
    /\ ret' = Returned(serialize_response(call.response, call.now))
    /\ UNCHANGED <<mainVars, connVars, clock, call>>

(***************************************************************************)
(* Specifications.                                                         *)
(***************************************************************************)
InitConns(born) ==
    /\ pc = [c \in ConnIds |-> IF c \in born THEN "read" ELSE "unborn"]
    /\ result = [c \in ConnIds |-> "none"]
    /\ buffer = [c \in ConnIds |-> <<>>]
    /\ response_bytes = [c \in ConnIds |-> <<>>]
    /\ inflight = [c \in ConnIds |-> <<>>]
    /\ sentAll = [c \in ConnIds |-> <<>>]
    /\ peerClosed = [c \in ConnIds |-> FALSE]
    /\ io = [c \in ConnIds |-> <<>>]
    /\ flushed = [c \in ConnIds |-> 0]
    /\ clock = 0

NoCall == call = [fn |-> "none"] /\ ret = Returned("none")

\* one accepted connection of monoio-http, the peer sending any bytes
InitConn ==
    /\ program = "monoio"
    /\ mainPc = "accept"
    /\ mainErr = "none"
    /\ InitConns({1})
    /\ NoCall

NextConn ==
    \/ \E line \in Lines : ClientSend(1, <<line>>, MaxSend)
    \/ ClientClose(1)
    \/ ReadOk(1)
    \/ ReadEof(1)
    \/ ReadErr(1)
    \/ WriteOk(1)
    \/ WriteErr(1)
    \/ Tick

Spec == InitConn /\ [][NextConn]_vars

\* either server from startup, with every connection it accepts
ServerSends == {<<RequestLine("/"), CRLF>>, <<BadBytes>>}

InitServer ==
    /\ program \in {"monoio", "hyper"}
    /\ mainPc = "bind"
    /\ mainErr = "none"
    /\ InitConns({})
    /\ NoCall

NextServer ==
    \/ BindOk
    \/ BindErr
    \/ AcceptOk
    \/ AcceptErr
    \/ \E c \in ConnIds :
          \/ \E bytes \in ServerSends : ClientSend(c, bytes, MaxSendServer)
          \/ ClientClose(c)
          \/ ReadOk(c)
          \/ ReadEof(c)
          \/ ReadErr(c)
          \/ WriteOk(c)
          \/ WriteErr(c)
          \/ HyperServe(c)

SpecServer == InitServer /\ [][NextServer]_vars

\* one accepted connection of monoio-http, the peer sending whole messages
\* (two requests, three bad bytes, a request that overfills the buffer), the
\* socket taking the response in any number of writes
IoSends ==
    { <<RequestLine("/"), CRLF>>, <<RequestLine("/x"), CRLF>>, <<BadBytes>>,
      <<RequestLine("/"), LongHeader, CRLF>> }

NextIo ==
    \/ \E bytes \in IoSends : ClientSend(1, bytes, MaxSendIo)
    \/ ClientClose(1)
    \/ ReadOk(1)
    \/ ReadEof(1)
    \/ ReadErr(1)
    \/ WriteSome(1)
    \/ WriteOk(1)
    \/ WriteErr(1)

SpecIo == InitConn /\ [][NextIo]_vars

\* the same, where every read and every write completes in the end and the
\* peer closes its side in the end
ReadCompletes == ReadOk(1) \/ ReadEof(1) \/ ReadErr(1)

WriteCompletes == WriteSome(1) \/ WriteOk(1) \/ WriteErr(1)

SpecIoFair ==
    /\ SpecIo
    /\ WF_vars(ReadCompletes)
    /\ WF_vars(WriteCompletes)
    /\ WF_vars(ClientClose(1))

\* one call of a pure function
InitFn ==
    /\ program = "monoio"
    /\ mainPc = "bind"
    /\ mainErr = "none"
    /\ InitConns({})
    /\ call \in Calls
    /\ ret = NotReturned

NextFn == CallHandleRequest \/ CallSerializeResponse

SpecFn == InitFn /\ [][NextFn]_vars

(***************************************************************************)
(* Reading the model's state for the properties below.                     *)
(***************************************************************************)
\* the status code and the body of a serialized response
StatusOf(bytes) == bytes[2]

BodyOf(bytes) == bytes[Len(bytes)]

\* the write_all calls made on connection c, and those that returned Ok
WriteCalls(c) == SelectSeq(io[c], LAMBDA e : e.op = "write")

Written(c) == SelectSeq(io[c], LAMBDA e : e.op = "write" /\ e.res = "Ok")

NoIoError(c) == \A i \in 1..Len(io[c]) : io[c][i].res # "Err"

\* a well-formed request: a request line, Host headers, the blank line
IsRequest(s) ==
    /\ Len(s) >= 2
    /\ s[1] \in RequestLines
    /\ s[Len(s)] = CRLF
    /\ \A i \in 2..(Len(s) - 1) : s[i] = HostHeader

\* a request cut before its blank line
IsTruncated(s) ==
    /\ Len(s) >= 1
    /\ s[1] \in RequestLines
    /\ \A i \in 2..Len(s) : s[i] = HostHeader

\* the handler's answer to a request for path, serialized at some time
Answers(path) ==
    {serialize_response(handle_request([path |-> path]).value, t) : t \in Times}

(***************************************************************************)
(* C1.  Keep-alive: when the peer has sent two well-formed requests        *)
(* back-to-back, all their bytes have been read without an I/O error and   *)
(* the task is back at its read (or has returned), exactly two responses   *)
(* were written, the k-th being the handler's answer to the k-th request,  *)
(* however the bytes were split over the reads.                            *)
(***************************************************************************)
C1_KeepAliveTwoRequests ==
    \A c \in ConnIds :
        \A k \in 2..(Len(sentAll[c]) - 2) :
            LET first == SubSeq(sentAll[c], 1, k)
                second == SubSeq(sentAll[c], k + 1, Len(sentAll[c]))
            IN  ( /\ IsRequest(first)
                  /\ IsRequest(second)
                  /\ inflight[c] = <<>>
                  /\ pc[c] \in {"read", "done"}
                  /\ NoIoError(c) )
                => /\ Len(Written(c)) = 2
                   /\ Written(c)[1].bytes \in Answers(PathOf(first[1]))
                   /\ Written(c)[2].bytes \in Answers(PathOf(second[1]))

(***************************************************************************)
(* C2, as claimed.  While the bytes of the last read parse as Partial and  *)
(* the buffer is below its capacity, the loop is back at its read with no  *)
(* error response written or pending; and a well-formed request whose      *)
(* bytes came in several reads has been answered by the handler once all   *)
(* its bytes are read.                                                     *)
(***************************************************************************)
C2_PartialReadsOn ==
    \A c \in ConnIds :
        /\ ( /\ buffer[c] # <<>>
             /\ parse(buffer[c]).kind = "Partial"
             /\ SeqBytes(buffer[c]) < BUFFER_SIZE )
           => /\ pc[c] = "read"
              /\ \A i \in 1..Len(WriteCalls(c)) : StatusOf(WriteCalls(c)[i].bytes) # "400"
        /\ ( /\ IsRequest(sentAll[c])
             /\ inflight[c] = <<>>
             /\ pc[c] = "read"
             /\ NoIoError(c) )
           => /\ Len(Written(c)) = 1
              /\ Written(c)[1].bytes \in Answers(PathOf(sentAll[c][1]))

(***************************************************************************)
(* C2, amended.  When the bytes of a read parse as Partial, the loop does  *)
(* not read again: it hands write_all a 400 response with the body         *)
(* "Incomplete HTTP request" and returns after that write, whatever the    *)
(* write returned.                                                         *)
(***************************************************************************)
C2_PartialIsAnswered400 ==
    \A c \in ConnIds :
        ( buffer[c] # <<>> /\ parse(buffer[c]).kind = "Partial" )
        => LET n == Len(io[c]) IN
           \/ /\ pc[c] = "write70"
              /\ io[c][n] = ReadEvent("Ok", buffer[c])
              /\ StatusOf(response_bytes[c]) = "400"
              /\ BodyOf(response_bytes[c]) = "Incomplete HTTP request"
           \/ /\ pc[c] = "done"
              /\ n >= 2
              /\ io[c][n - 1] = ReadEvent("Ok", buffer[c])
              /\ io[c][n].op = "write"
              /\ StatusOf(io[c][n].bytes) = "400"
              /\ BodyOf(io[c][n].bytes) = "Incomplete HTTP request"

\* a well-formed request, read in two pieces, was answered 400 and the task returned
C2_Witness ==
    /\ IsRequest(sentAll[1])
    /\ pc[1] = "done"
    /\ Len(io[1]) = 2
    /\ io[1][1] = ReadEvent("Ok", <<sentAll[1][1]>>)
    /\ io[1][2].op = "write"
    /\ io[1][2].res = "Ok"
    /\ StatusOf(io[1][2].bytes) = "400"
    /\ BodyOf(io[1][2].bytes) = "Incomplete HTTP request"

(***************************************************************************)
(* C3.  A read whose bytes do not parse (Malformed) is followed by exactly *)
(* one write_all, of a 400 response, after which the task has returned:    *)
(* no read and no write follows it on that connection.                     *)
(***************************************************************************)
C3_MalformedOne400ThenClose ==
    \A c \in ConnIds :
        \A i \in 1..Len(io[c]) :
            ( /\ io[c][i].op = "read"
              /\ io[c][i].res = "Ok"
              /\ parse(io[c][i].bytes).kind = "Err" )
            => IF i = Len(io[c])
               THEN /\ pc[c] = "write81"
                    /\ StatusOf(response_bytes[c]) = "400"
               ELSE /\ Len(io[c]) = i + 1
                    /\ io[c][i + 1].op = "write"
                    /\ StatusOf(io[c][i + 1].bytes) = "400"
                    /\ pc[c] = "done"

\* malformed bytes were read, the 400 was written, the task returned
C3_Witness ==
    /\ pc[1] = "done"
    /\ result[1] = "Ok"
    /\ Len(io[1]) = 2
    /\ io[1][1] = ReadEvent("Ok", <<BadBytes>>)
    /\ io[1][2].res = "Ok"
    /\ StatusOf(io[1][2].bytes) = "400"
    /\ BodyOf(io[1][2].bytes) = "Bad Request"

(***************************************************************************)
(* C4.  While all the peer has sent is a truncated request (a request      *)
(* line, maybe headers, no blank line), no 200 response is written or      *)
(* pending on the connection: at most one response is written, a 400.      *)
(***************************************************************************)
C4_TruncatedNever200 ==
    \A c \in ConnIds :
        IsTruncated(sentAll[c])
        => /\ Len(WriteCalls(c)) <= 1
           /\ \A i \in 1..Len(WriteCalls(c)) : StatusOf(WriteCalls(c)[i].bytes) = "400"
           /\ response_bytes[c] # <<>> => StatusOf(response_bytes[c]) = "400"

\* the peer sent a request line, then closed; the connection ended with a 400
C4_Witness ==
    /\ IsTruncated(sentAll[1])
    /\ peerClosed[1]
    /\ inflight[1] = <<>>
    /\ pc[1] = "done"
    /\ Len(Written(1)) = 1
    /\ StatusOf(Written(1)[1].bytes) = "400"

(***************************************************************************)
(* C5.  handle_request, of either server, returns Ok for every path:       *)
(* "/" gives 200 "Hello, World!", "/health" gives 200 with the liveness    *)
(* body ("Ok" in monoio-http, "OK" in hyper-http), any other path gives    *)
(* 404 "Not Found", each with the single header Content-Type: text/plain.  *)
(***************************************************************************)
C5_HandlerTable ==
    ( ret.done /\ call.fn = "handle_request" )
    => /\ ret.value.result = "Ok"
       /\ LET res == ret.value.value IN
          /\ res.headers = << <<"content-type", "text/plain">> >>
          /\ call.path = "/" => res.status = 200 /\ res.body = "Hello, World!"
          /\ call.path = "/health"
                => /\ res.status = 200
                   /\ res.body = (IF call.program = "monoio" THEN "Ok" ELSE "OK")
          /\ call.path \notin {"/", "/health"}
                => res.status = 404 /\ res.body = "Not Found"

\* a path that only starts like the liveness path was answered 404
C5_Witness ==
    /\ ret.done
    /\ call.fn = "handle_request"
    /\ call.program = "monoio"
    /\ call.path = "/healthz"
    /\ ret.value.value.status = 404

(***************************************************************************)
(* Reading a serialized response: after the five slices of the status line *)
(* every header line is four slices (name, ": ", value, CRLF); the last    *)
(* two slices are the empty line and the body.                             *)
(***************************************************************************)
HeaderCount(bytes) == (Len(bytes) - 7) \div 4

HeaderName(bytes, k) == bytes[4 * k + 2]

HeaderValue(bytes, k) == bytes[4 * k + 4]

\* the values of the header lines of that name, in output order
ValuesOf(bytes, name) ==
    LET idx == SelectSeq([k \in 1..HeaderCount(bytes) |-> k],
                         LAMBDA k : HeaderName(bytes, k) = name)
    IN  [j \in 1..Len(idx) |-> HeaderValue(bytes, idx[j])]

\* the values the Response holds under that name, in the order they were set
Supplied(response, name) ==
    LET hs == SelectSeq(response.headers, LAMBDA e : e[1] = name)
    IN  [j \in 1..Len(hs) |-> hs[j][2]]

\* the byte length of each body, in decimal
LengthOf(body) ==
    CASE body = "" -> "0"
      [] body = "Ok" -> "2"
      [] body = "Hello, World!" -> "13"

SerializeReturned == ret.done /\ call.fn = "serialize_response"

(***************************************************************************)
(* C6, as claimed.  The output of serialize_response holds exactly one     *)
(* Content-Length header, for every Response: the body's byte length when  *)
(* the Response has none, the Response's own otherwise.                    *)
(***************************************************************************)
C6_ExactlyOneContentLength ==
    SerializeReturned
    => LET emitted == ValuesOf(ret.value, "content-length")
           supplied == Supplied(call.response, "content-length")
       IN  /\ Len(emitted) = 1
           /\ supplied = <<>> => emitted[1] = LengthOf(call.response.body)
           /\ supplied # <<>> => emitted[1] = supplied[1]

(***************************************************************************)
(* C6, amended.  The Content-Length headers of the output are: one, with   *)
(* the body's exact byte length, when the Response has no Content-Length;  *)
(* otherwise exactly the Content-Length values of the Response, unchanged  *)
(* and in order, with none added.  So the output holds exactly one         *)
(* Content-Length header for every Response with at most one such value.   *)
(***************************************************************************)
C6_ContentLengthInjectedOrKept ==
    SerializeReturned
    => LET emitted == ValuesOf(ret.value, "content-length")
           supplied == Supplied(call.response, "content-length")
       IN  /\ supplied = <<>> => emitted = <<LengthOf(call.response.body)>>
           /\ supplied # <<>> => emitted = supplied
           /\ Len(supplied) <= 1 => Len(emitted) = 1

\* a Response with its own Content-Length, unlike the body's length, kept as it is
C6_Witness ==
    /\ SerializeReturned
    /\ call.response.body = "Ok"
    /\ Supplied(call.response, "content-length") = <<"99">>
    /\ ValuesOf(ret.value, "content-length") = <<"99">>

(***************************************************************************)
(* C7.  The process leaves the accept loop only through a failed bind:     *)
(* main never exits because an accept failed.                              *)
(***************************************************************************)
C7_AcceptErrorDoesNotStop == mainPc = "exited" => mainErr = "bind"

(***************************************************************************)
(* C8.  A step in which one connection's task ends (after a read or write  *)
(* failure, a malformed request, or otherwise) leaves main in its accept   *)
(* loop and every other connection's task as it was and still running.     *)
(***************************************************************************)
TaskState(c) ==
    <<pc[c], result[c], buffer[c], response_bytes[c], inflight[c], sentAll[c],
      peerClosed[c], io[c], flushed[c]>>

C8_ConnectionFailureIsolated ==
    [][ \A c \in ConnIds :
            ( pc[c] # "done" /\ pc'[c] = "done" )
            => /\ mainPc' = "accept"
               /\ mainErr' = "none"
               /\ \A d \in ConnIds \ {c} :
                     /\ TaskState(d)' = TaskState(d)
                     /\ Running(d) => Running(d)'
      ]_vars

\* one task has failed while another is still being served and main still accepts
C8_Witness ==
    \E c, d \in ConnIds :
        /\ c # d
        /\ pc[c] = "done"
        /\ result[c] \in {"Err", "Panic"}
        /\ Running(d)
        /\ pc[d] \in WritePcs \cup {"serve"}
        /\ mainPc = "accept"

(***************************************************************************)
(* C9.  Every response handed to write_all has status 200, 404 or 400,     *)
(* and follows a read: 200 and 404 follow bytes that parse as Complete,    *)
(* 400 follows bytes that do not.  A failed read or write is the last      *)
(* thing done on its connection: the task has returned, nothing pending.   *)
(***************************************************************************)
StatusFollowsParse(bytes, status) ==
    /\ status \in {"200", "404", "400"}
    /\ status \in {"200", "404"} => parse(bytes).kind = "Complete"
    /\ status = "400" => parse(bytes).kind # "Complete"

C9_StatusesAndAbruptClose ==
    \A c \in ConnIds :
        /\ \A i \in 1..Len(io[c]) :
              /\ io[c][i].op = "write"
                    => /\ i > 1
                       /\ io[c][i - 1].op = "read"
                       /\ io[c][i - 1].res = "Ok"
                       /\ StatusFollowsParse(io[c][i - 1].bytes, StatusOf(io[c][i].bytes))
              /\ io[c][i].res = "Err"
                    => /\ i = Len(io[c])
                       /\ pc[c] = "done"
                       /\ response_bytes[c] = <<>>
        /\ pc[c] \in WritePcs
              => StatusFollowsParse(buffer[c], StatusOf(response_bytes[c]))

\* a 404 was written, and later a write failed and ended the connection
C9_Witness ==
    /\ \E i \in 1..Len(io[1]) :
          /\ io[1][i].op = "write"
          /\ io[1][i].res = "Ok"
          /\ StatusOf(io[1][i].bytes) = "404"
    /\ io[1][Len(io[1])].op = "write"
    /\ io[1][Len(io[1])].res = "Err"
    /\ pc[1] = "done"

(***************************************************************************)
(* C10.  The output of serialize_response is the status line, then one     *)
(* line per header of the Response in the order the header map iterates    *)
(* them, then Content-Length if the Response has none, then Date if the    *)
(* Response has none, then the empty line, then the body as the last       *)
(* slice.                                                                  *)
(***************************************************************************)
StatusText(status) ==
    CASE status = 200 -> <<"200", "OK">>
      [] status = 400 -> <<"400", "Bad Request">>
      [] status = 404 -> <<"404", "Not Found">>
      [] status = 299 -> <<"299", "">>

C10_OutputLayout ==
    SerializeReturned
    => LET out == ret.value
           res == call.response
           supplied == HeadersIter(res.headers)
           addsLength == \A i \in 1..Len(res.headers) : res.headers[i][1] # "content-length"
           addsDate == \A i \in 1..Len(res.headers) : res.headers[i][1] # "date"
           added == (IF addsLength THEN 1 ELSE 0) + (IF addsDate THEN 1 ELSE 0)
           n == Len(res.headers)
       IN  /\ Len(out) = 5 + 4 * (n + added) + 2
           /\ SubSeq(out, 1, 5)
                 = <<"HTTP/1.1 ", StatusText(res.status)[1], " ",
                     StatusText(res.status)[2], "\r\n">>
           /\ \A k \in 1..(n + added) :
                 /\ out[4 * k + 3] = ": "
                 /\ out[4 * k + 5] = "\r\n"
           /\ \A k \in 1..n :
                 /\ HeaderName(out, k) = supplied[k][1]
                 /\ HeaderValue(out, k) = supplied[k][2]
           /\ addsLength => HeaderName(out, n + 1) = "content-length"
           /\ addsDate
                 => /\ HeaderName(out, n + added) = "date"
                    /\ HeaderValue(out, n + added)
                          \in {"Thu, 01 Jan 1970 00:00:00 GMT", "Thu, 01 Jan 1970 00:00:01 GMT",
                               "Thu, 01 Jan 1970 00:00:02 GMT"}
           /\ out[Len(out) - 1] = "\r\n"
           /\ out[Len(out)] = res.body

\* two headers supplied, then Content-Length, then Date, both injected
C10_Witness ==
    /\ SerializeReturned
    /\ Len(call.response.headers) = 2
    /\ HeaderCount(ret.value) = 4
    /\ HeaderName(ret.value, 3) = "content-length"
    /\ HeaderName(ret.value, 4) = "date"
    /\ BodyOf(ret.value) = "Hello, World!"

(***************************************************************************)
(* C11.  A read that returns zero bytes, or an error, is the last thing    *)
(* done on its connection: the task has returned, Ok(()) after zero bytes  *)
(* and Err after an error, with no response pending and none written       *)
(* after that read, and no second read.                                    *)
(***************************************************************************)
C11_ReadEofOrErrCloses ==
    \A c \in ConnIds :
        \A i \in 1..Len(io[c]) :
            ( io[c][i].op = "read" /\ io[c][i].res \in {"Eof", "Err"} )
            => /\ i = Len(io[c])
               /\ pc[c] = "done"
               /\ result[c] = (IF io[c][i].res = "Eof" THEN "Ok" ELSE "Err")
               /\ response_bytes[c] = <<>>

\* a request was answered, then the next read failed and ended the task
C11_Witness ==
    /\ Len(io[1]) = 3
    /\ io[1][2].op = "write"
    /\ io[1][2].res = "Ok"
    /\ io[1][3] = ReadEvent("Err", <<>>)
    /\ pc[1] = "done"
    /\ result[1] = "Err"

(***************************************************************************)
(* C12.  The loop leaves a write_all only when every slice of the response *)
(* is written or the socket failed: a write_all that returned Ok wrote the *)
(* whole response, after a short write the task is still in that           *)
(* write_all with the rest to write and no read issued, and a write_all    *)
(* that returned Err is the last thing done on the connection: the task    *)
(* has returned Err, and no read follows.                                  *)
(***************************************************************************)
C12_WriteAllFlushesOrFails ==
    \A c \in ConnIds :
        /\ \A i \in 1..Len(io[c]) :
              io[c][i].op = "write"
              => /\ io[c][i].flushed <= Len(io[c][i].bytes)
                 /\ io[c][i].res = "Ok" => io[c][i].flushed = Len(io[c][i].bytes)
                 /\ io[c][i].res = "Err"
                       => /\ i = Len(io[c])
                          /\ pc[c] = "done"
                          /\ result[c] = "Err"
        /\ pc[c] \in WritePcs
              => /\ flushed[c] < Len(response_bytes[c])
                 /\ io[c][Len(io[c])].op = "read"
        /\ pc[c] \notin WritePcs => flushed[c] = 0 /\ response_bytes[c] = <<>>

\* short writes have taken all but the body of a 200 response, and the task
\* is still in its write_all
C12_Witness ==
    /\ pc[1] = "write57"
    /\ StatusOf(response_bytes[1]) = "200"
    /\ flushed[1] = Len(response_bytes[1]) - 1
    /\ Len(io[1]) = 1

(***************************************************************************)
(* C13.  On one connection reads and writes alternate: a read that         *)
(* returned bytes is followed by the write_all of the response to exactly  *)
(* those bytes, the next read is issued only after that write_all has      *)
(* written its whole response, and the reads take the peer's bytes in the  *)
(* order they were sent.                                                   *)
(***************************************************************************)
RECURSIVE BytesRead(_)
BytesRead(events) ==
    IF events = <<>> THEN <<>>
    ELSE (IF Head(events).op = "read" THEN Head(events).bytes ELSE <<>>)
             \o BytesRead(Tail(events))

C13_SequentialInOrder ==
    \A c \in ConnIds :
        /\ \A i \in 1..Len(io[c]) :
              /\ ( io[c][i].op = "read" /\ i > 1 )
                    => /\ io[c][i - 1].op = "write"
                       /\ io[c][i - 1].res = "Ok"
                       /\ io[c][i - 1].flushed = Len(io[c][i - 1].bytes)
              /\ io[c][i].op = "write"
                    => /\ i > 1
                       /\ io[c][i - 1].op = "read"
                       /\ io[c][i - 1].res = "Ok"
                       /\ \E t \in Times :
                             io[c][i].bytes = OnRead(io[c][i - 1].bytes, t).bytes
        /\ pc[c] = "read" => response_bytes[c] = <<>> /\ flushed[c] = 0
        /\ BytesRead(io[c]) \o inflight[c] = sentAll[c]

\* two requests, each read and answered before the next: 200 for "/", 404 for "/x"
C13_Witness ==
    /\ Len(io[1]) = 4
    /\ io[1][1] = ReadEvent("Ok", <<RequestLine("/"), CRLF>>)
    /\ io[1][2].res = "Ok"
    /\ StatusOf(io[1][2].bytes) = "200"
    /\ io[1][3] = ReadEvent("Ok", <<RequestLine("/x"), CRLF>>)
    /\ io[1][4].res = "Ok"
    /\ StatusOf(io[1][4].bytes) = "404"
    /\ pc[1] = "read"

(***************************************************************************)
(* C14.  A step of the accept loop starts at most one task, and only from  *)
(* a successful accept; the task starts with its own empty buffer, no      *)
(* response and no I/O done.  A step that changes one task's socket,       *)
(* buffer or position changes no other task's.  While the accept loop runs *)
(* it can accept again whatever the tasks spawned before are doing.        *)
(***************************************************************************)
Born == ConnIds \ Unborn

OwnState(c) == <<pc[c], result[c], buffer[c], response_bytes[c], io[c], flushed[c]>>

C14_OneTaskPerAccept ==
    [][ /\ Born \subseteq Born'
        /\ Cardinality(Born' \ Born) <= 1
        /\ \A c \in Born' \ Born :
              /\ mainPc = "accept"
              /\ mainPc' = "accept"
              /\ pc'[c] = (IF program = "monoio" THEN "read" ELSE "serve")
              /\ buffer'[c] = <<>>
              /\ response_bytes'[c] = <<>>
              /\ io'[c] = <<>>
              /\ result'[c] = "none"
              /\ \A d \in ConnIds \ {c} : TaskState(d)' = TaskState(d)
        /\ \A c, d \in ConnIds :
              (c # d /\ OwnState(c)' # OwnState(c)) => TaskState(d)' = TaskState(d)
      ]_vars

C14_NeverWaits == [](( mainPc = "accept" /\ Unborn # {} ) => ENABLED AcceptOk)

C14_SpawnAndForget == C14_OneTaskPerAccept /\ C14_NeverWaits

\* a second connection is accepted while the first task is in the middle of
\* its write_all
C14_Witness ==
    /\ mainPc = "accept"
    /\ pc[1] \in WritePcs
    /\ pc[2] = "read"
    /\ io[2] = <<>>

(***************************************************************************)
(* C15.  The read buffer never holds more than BUFFER_SIZE bytes.  When a  *)
(* read has filled it to BUFFER_SIZE and the request in it is still        *)
(* Partial, the task does nothing but write_all a 400 response and return: *)
(* it is at that write_all, or has returned with that write as its last    *)
(* operation on the socket.                                                *)
(***************************************************************************)
AtCapacityPartial(c) ==
    /\ SeqBytes(buffer[c]) = BUFFER_SIZE
    /\ parse(buffer[c]).kind = "Partial"

C15_BufferBoundedFullPartialIs400 ==
    \A c \in ConnIds :
        /\ SeqBytes(buffer[c]) <= BUFFER_SIZE
        /\ AtCapacityPartial(c) =>
              \/ /\ pc[c] = "write70"
                 /\ StatusOf(response_bytes[c]) = "400"
              \/ /\ pc[c] = "done"
                 /\ io[c] # <<>>
                 /\ io[c][Len(io[c])].op = "write"
                 /\ StatusOf(io[c][Len(io[c])].bytes) = "400"
                 /\ io[c][Len(io[c])].res = "Ok" => result[c] = "Ok"

\* a request line and a header that fill the buffer exactly, without the
\* blank line: 400 "Incomplete HTTP request" was written and the task returned
C15_Witness ==
    /\ buffer[1] = <<RequestLine("/"), LongHeader>>
    /\ SeqBytes(buffer[1]) = BUFFER_SIZE
    /\ pc[1] = "done"
    /\ Len(io[1]) = 2
    /\ io[1][2].res = "Ok"
    /\ StatusOf(io[1][2].bytes) = "400"
    /\ BodyOf(io[1][2].bytes) = "Incomplete HTTP request"
    /\ inflight[1] = <<CRLF>>

(***************************************************************************)
(* C16.  The buffer changes only in a step the task takes from its read,   *)
(* when no response is pending: parsing, handle_request and                *)
(* serialize_response of one iteration are over before line 37 clears the  *)
(* buffer again.  While a response is being written the buffer still holds *)
(* the bytes that response was built from.                                 *)
(***************************************************************************)
C16_BufferChangesOnlyAtRead ==
    [][ \A c \in ConnIds :
           buffer'[c] # buffer[c] =>
              /\ pc[c] = "read"
              /\ response_bytes[c] = <<>>
              /\ flushed[c] = 0
      ]_vars

C16_PendingResponseIsOfBuffer ==
    [](\A c \in ConnIds :
          pc[c] \in WritePcs =>
             \E t \in Times : response_bytes[c] = OnRead(buffer[c], t).bytes)

C16_BufferStableWhileInUse ==
    C16_BufferChangesOnlyAtRead /\ C16_PendingResponseIsOfBuffer

\* the second iteration: the buffer holds the second request alone, its 404 is
\* partly written, and the first request's 200 went out whole before
C16_Witness ==
    /\ Len(io[1]) = 3
    /\ io[1][2].res = "Ok"
    /\ StatusOf(io[1][2].bytes) = "200"
    /\ buffer[1] = <<RequestLine("/x"), CRLF>>
    /\ pc[1] = "write57"
    /\ StatusOf(response_bytes[1]) = "404"
    /\ flushed[1] > 0

(***************************************************************************)
(* C17.  On a connection without write errors every read that returned     *)
(* bytes has exactly one response: the responses written, plus the one     *)
(* being written, are as many as those reads.  The response is the         *)
(* handler's for the first request in the bytes of its read when that      *)
(* request is Complete, and a 400 otherwise.  At every read the buffer     *)
(* holds the bytes of that read alone, so whatever followed the first      *)
(* request in an earlier read is gone and is parsed by no later iteration. *)
(***************************************************************************)
ReadsWithBytes(c) == SelectSeq(io[c], LAMBDA e : e.op = "read" /\ e.res = "Ok")

NoWriteError(c) == \A i \in 1..Len(io[c]) : ~(io[c][i].op = "write" /\ io[c][i].res = "Err")

LastRead(c) ==
    LET reads == SelectSeq(io[c], LAMBDA e : e.op = "read") IN
    IF reads = <<>> THEN <<>> ELSE reads[Len(reads)].bytes

C17_OneResponsePerRead ==
    \A c \in ConnIds :
        /\ NoWriteError(c) =>
              Len(Written(c)) + (IF pc[c] \in WritePcs THEN 1 ELSE 0)
                  = Len(ReadsWithBytes(c))
        /\ Len(WriteCalls(c)) <= Len(ReadsWithBytes(c))
        /\ \A i \in 1..Len(io[c]) :
              io[c][i].op = "write" =>
                 /\ i > 1
                 /\ io[c][i - 1].op = "read"
                 /\ io[c][i - 1].res = "Ok"
                 /\ LET parsed == parse(io[c][i - 1].bytes) IN
                    IF parsed.kind = "Complete"
                    THEN io[c][i].bytes \in Answers(parsed.path)
                    ELSE StatusOf(io[c][i].bytes) = "400"
        /\ buffer[c] = LastRead(c)
        /\ BytesRead(io[c]) \o inflight[c] = sentAll[c]

\* one read took two requests; the first was answered, the loop is back at its
\* read with nothing more to come, and the second has no response
C17_Witness ==
    /\ Len(io[1]) = 2
    /\ io[1][1].op = "read"
    /\ Len(io[1][1].bytes) = 4
    /\ IsRequest(SubSeq(io[1][1].bytes, 1, 2))
    /\ IsRequest(SubSeq(io[1][1].bytes, 3, 4))
    /\ io[1][2].op = "write"
    /\ io[1][2].res = "Ok"
    /\ pc[1] = "read"
    /\ inflight[1] = <<>>
    /\ buffer[1] = io[1][1].bytes

(***************************************************************************)
(* C18.  handle_connection returns after a read of zero bytes, after a     *)
(* failed read or write, and after writing a 400 response; once it has     *)
(* returned, the task makes no further read or write and keeps its result. *)
(* If every read and every write_all eventually completes and the peer     *)
(* eventually closes its side, the task eventually returns.                *)
(***************************************************************************)
Closes(e) ==
    \/ e.res \in {"Eof", "Err"}
    \/ e.op = "write" /\ StatusOf(e.bytes) = "400"

C18_ReturnedStaysReturned ==
    [][ \A c \in ConnIds :
           pc[c] = "done" =>
              /\ pc'[c] = "done"
              /\ io'[c] = io[c]
              /\ result'[c] = result[c]
              /\ buffer'[c] = buffer[c]
      ]_vars

C18_ClosingEventsReturn ==
    [](\A c \in ConnIds :
          /\ (\E i \in 1..Len(io[c]) : Closes(io[c][i])) => pc[c] = "done"
          /\ pc[c] = "done" => io[c] # <<>> /\ Closes(io[c][Len(io[c])]))

C18_EventuallyReturns == <>(pc[1] = "done")

C18_ClosingTerminalAndReached ==
    C18_ReturnedStaysReturned /\ C18_ClosingEventsReturn /\ C18_EventuallyReturns

\* a request was served, the peer closed, the next read returned zero bytes
\* and the task returned Ok; later bytes of the peer stay unread
C18_Witness ==
    /\ pc[1] = "done"
    /\ result[1] = "Ok"
    /\ Len(io[1]) = 3
    /\ io[1][2].op = "write"
    /\ io[1][2].res = "Ok"
    /\ io[1][3] = ReadEvent("Eof", <<>>)
    /\ peerClosed[1]

=============================================================================
